---------------------------- MODULE Spec2Model ----------------------------
(***************************************************************************)
(* Model of the query cookbook: the staged dynamic query handlers          *)
(* (listMessages, listUsers), the creation mutations (createMessage,       *)
(* createUser), the declared schema, and the part of the storage           *)
(* collaborator's query contract the handlers rely on.                     *)
(*                                                                         *)
(* An optional argument v.optional(v.string()) is a set with at most one   *)
(* element: {} is undefined, {"x"} is the string "x".  A message body is   *)
(* the sequence of its words, the unit the text search index works on.     *)
(***************************************************************************)
EXTENDS Naturals, Sequences, FiniteSets

VARIABLES messages, users, last, form

vars == <<messages, users, last, form>>

(***************************************************************************)
(* Bounds of the model and constants of the program.                       *)
(***************************************************************************)
\* Inserts a behaviour of Spec may perform (both tables together).
MaxRecords == 2
\* Records each table already holds in the initial states of SpecLong.
LongBase == 10
\* Inserts a behaviour of SpecLong may perform on top of them.
MaxExtra == 1
\* .take(10)
TakeCount == 10

Authors == {"alice", "bob"}
Conversations == {"room1", "room2"}
Bodies == {<<"bye", "hello">>, <<"hello", "hello">>}
Names == {"ann", "ben"}
Tokens == {"t1", "t2"}
Statuses == {"active", "inactive"}

Absent == {}
AuthorFilters == {Absent, {""}, {"alice"}}
ConversationFilters == {Absent, {""}, {"room1"}}
BodyFilters == {Absent, {""}, {"hello"}, {"bye"}}
NameFilters == {Absent, {""}, {"ann"}}
TokenFilters == {Absent, {""}, {"t1"}}

\* What the storage collaborator may raise on its own.
Faults == {"none", "unavailable"}

(***************************************************************************)
(* Helpers.                                                                *)
(***************************************************************************)
Val(opt) == CHOOSE x \in opt : TRUE

\* JavaScript truthiness of an optional string: defined and not "".
Truthy(opt) == opt # Absent /\ opt # {""}

LastOf(seq) == seq[Len(seq)]

RECURSIVE Reverse(_)
Reverse(seq) ==
    IF seq = <<>> THEN <<>> ELSE Append(Reverse(Tail(seq)), Head(seq))

FirstN(seq, n) == SubSeq(seq, 1, IF Len(seq) < n THEN Len(seq) ELSE n)

(***************************************************************************)
(* The schema.                                                             *)
(***************************************************************************)
MessagesSchema ==
    { [name |-> "by_author", kind |-> "index", field |-> "author"],
      [name |-> "by_conversation", kind |-> "index", field |-> "conversation"],
      [name |-> "by_body", kind |-> "search", field |-> "body"] }

UsersSchema ==
    { [name |-> "by_token", kind |-> "index", field |-> "tokenIdentifier"],
      [name |-> "by_name", kind |-> "index", field |-> "name"] }

Schema(table) == IF table = "messages" THEN MessagesSchema ELSE UsersSchema

(***************************************************************************)
(* The query builder of the storage collaborator.  A handle is the table   *)
(* and the chain of builder calls that derived it; a builder call returns  *)
(* a new handle and leaves its receiver as it was.                         *)
(***************************************************************************)
DbQuery(table) == [table |-> table, chain |-> <<>>]

WithIndex(q, index, field, value) ==
    [q EXCEPT !.chain = Append(@, [op |-> "withIndex", index |-> index,
                                   field |-> field, value |-> value])]

WithSearchIndex(q, index, field, term) ==
    [q EXCEPT !.chain = Append(@, [op |-> "withSearchIndex", index |-> index,
                                   field |-> field, term |-> term])]

Order(q, dir) ==
    [q EXCEPT !.chain = Append(@, [op |-> "order", dir |-> dir])]

Filter(q, field, value) ==
    [q EXCEPT !.chain = Append(@, [op |-> "filter", field |-> field,
                                   value |-> value])]

IsIndexSelection(call) == call.op \in {"withIndex", "withSearchIndex"}
IsOrderSelection(call) == call.op \in {"order", "withSearchIndex"}

CountCalls(chain, Test(_)) == Cardinality({i \in DOMAIN chain : Test(chain[i])})

\* The rules of the builder: one index, one order, a search index is both.
WellFormed(chain) ==
    /\ CountCalls(chain, IsIndexSelection) <= 1
    /\ CountCalls(chain, IsOrderSelection) <= 1
    /\ \A i \in DOMAIN chain : IsIndexSelection(chain[i]) => i = 1

\* Each index a chain names is declared for the table, with the kind and
\* the field the call needs.
Declared(q) ==
    \A i \in DOMAIN q.chain :
        LET call == q.chain[i] IN
        IsIndexSelection(call) =>
            \E ix \in Schema(q.table) :
                /\ ix.name = call.index
                /\ ix.field = call.field
                /\ ix.kind = (IF call.op = "withIndex" THEN "index" ELSE "search")

(***************************************************************************)
(* Running a query.                                                        *)
(***************************************************************************)
RECURSIVE Keep(_, _, _)
Keep(rows, field, value) ==
    IF rows = <<>> THEN <<>>
    ELSE IF Head(rows)[field] = value
         THEN <<Head(rows)>> \o Keep(Tail(rows), field, value)
         ELSE Keep(Tail(rows), field, value)

\* Relevance of a text to a search term: the occurrences of the term.
Relevance(words, term) == Cardinality({i \in DOMAIN words : words[i] = term})

RECURSIVE InsertRanked(_, _, _, _)
InsertRanked(ranked, row, field, term) ==
    IF ranked = <<>> THEN <<row>>
    ELSE IF Relevance(Head(ranked)[field], term) >= Relevance(row[field], term)
         THEN <<Head(ranked)>> \o InsertRanked(Tail(ranked), row, field, term)
         ELSE <<row>> \o ranked

\* The rows matching the term, most relevant first; equally relevant rows
\* keep their creation order.
RECURSIVE Search(_, _, _)
Search(rows, field, term) ==
    IF rows = <<>> THEN <<>>
    ELSE LET rest == Search(SubSeq(rows, 1, Len(rows) - 1), field, term)
             row == rows[Len(rows)]
         IN IF Relevance(row[field], term) > 0
            THEN InsertRanked(rest, row, field, term)
            ELSE rest

ApplyCall(rows, call) ==
    CASE call.op = "withIndex" -> Keep(rows, call.field, call.value)
      [] call.op = "withSearchIndex" -> Search(rows, call.field, call.term)
      [] call.op = "order" -> IF call.dir = "desc" THEN Reverse(rows) ELSE rows
      [] call.op = "filter" -> Keep(rows, call.field, call.value)

RECURSIVE RunChain(_, _)
RunChain(rows, chain) ==
    IF chain = <<>> THEN rows
    ELSE RunChain(ApplyCall(rows, Head(chain)), Tail(chain))

Table(name) == IF name = "messages" THEN messages ELSE users

\* Every row the query matches, in the query's order.
Rows(q) == RunChain(Table(q.table), q.chain)

\* q.take(n): the promise's outcome.
Take(q, n, fault) ==
    IF fault # "none"
    THEN [status |-> "error", error |-> fault, value |-> <<>>]
    ELSE IF ~(WellFormed(q.chain) /\ Declared(q))
    THEN [status |-> "error", error |-> "validation", value |-> <<>>]
    ELSE [status |-> "ok", error |-> "none", value |-> FirstN(Rows(q), n)]


\* `await promise`: the handler completes as the promise does.
Await(promise) == promise

\* A promise the handler neither awaits nor returns: the handler completes
\* successfully with no value, whatever becomes of the promise.
Floating(promise) == [status |-> "ok", error |-> "none", value |-> <<>>]

\* ctx.db.insert(table, fields): the promise's outcome.
Insert(fault) ==
    IF fault # "none"
    THEN [status |-> "error", error |-> fault, value |-> <<>>]
    ELSE [status |-> "ok", error |-> "none", value |-> <<>>]

\* Records stored in both tables.
Stored == Len(messages) + Len(users)

(***************************************************************************)
(* listMessages.  Each stage yields the handle it leaves in its variable   *)
(* (q) and the handles its builder calls returned, in call order (made).   *)
(***************************************************************************)
ListMessagesArgs ==
    [authorFilter : AuthorFilters, conversationFilter : ConversationFilters,
     bodyFilter : BodyFilters, excludeHidden : BOOLEAN, newestFirst : BOOLEAN]

\* A slip the handler's comments warn against: the second withIndex is
\* called on indexedQuery, not on tableQuery.
MessagesIndexStageChained(tableQuery, args) ==
    LET byAuthor ==
            IF args.authorFilter # Absent
            THEN <<WithIndex(tableQuery, "by_author", "author",
                             Val(args.authorFilter))>>
            ELSE <<>>
        indexedQuery == IF byAuthor = <<>> THEN tableQuery ELSE byAuthor[1]
        byConversation ==
            IF args.conversationFilter # Absent
            THEN <<WithIndex(indexedQuery, "by_conversation", "conversation",
                             Val(args.conversationFilter))>>
            ELSE <<>>
        made == byAuthor \o byConversation
    IN [made |-> made, q |-> IF made = <<>> THEN tableQuery ELSE LastOf(made)]

\* A slip: stage 2 tests the index filters for truthiness, as it tests the
\* bodyFilter, so that an empty string counts as absent.
MessagesIndexStageTruthy(tableQuery, args) ==
    LET byAuthor ==
            IF Truthy(args.authorFilter)
            THEN <<WithIndex(tableQuery, "by_author", "author",
                             Val(args.authorFilter))>>
            ELSE <<>>
        byConversation ==
            IF Truthy(args.conversationFilter)
            THEN <<WithIndex(tableQuery, "by_conversation", "conversation",
                             Val(args.conversationFilter))>>
            ELSE <<>>
        made == byAuthor \o byConversation
    IN [made |-> made, q |-> IF made = <<>> THEN tableQuery ELSE LastOf(made)]


\* Stage 2: pick the index.
MessagesIndexStage(tableQuery, args) ==
    LET byAuthor ==
            IF args.authorFilter # Absent
            THEN <<WithIndex(tableQuery, "by_author", "author",
                             Val(args.authorFilter))>>
            ELSE <<>>
        byConversation ==
            IF args.conversationFilter # Absent
            THEN <<WithIndex(tableQuery, "by_conversation", "conversation",
                             Val(args.conversationFilter))>>
            ELSE <<>>
        made == byAuthor \o byConversation
    IN [made |-> made, q |-> IF made = <<>> THEN tableQuery ELSE LastOf(made)]

\* A slip the handler's comments warn against: withSearchIndex is called on
\* orderedQuery, not on tableQuery.
MessagesOrderStageOnOrdered(tableQuery, indexedQuery, args) ==
    LET ordered ==
            IF args.newestFirst THEN <<Order(indexedQuery, "desc")>> ELSE <<>>
        orderedQuery == IF ordered = <<>> THEN indexedQuery ELSE ordered[1]
        searched ==
            IF Truthy(args.bodyFilter)
            THEN <<WithSearchIndex(orderedQuery, "by_body", "body",
                                   Val(args.bodyFilter))>>
            ELSE <<>>
        made == ordered \o searched
    IN [made |-> made, q |-> IF made = <<>> THEN indexedQuery ELSE LastOf(made)]

\* A slip: the text search is applied only when no index was picked.
MessagesOrderStageIndexWins(tableQuery, indexedQuery, args) ==
    LET ordered ==
            IF args.newestFirst THEN <<Order(indexedQuery, "desc")>> ELSE <<>>
        searched ==
            IF Truthy(args.bodyFilter) /\ indexedQuery = tableQuery
            THEN <<WithSearchIndex(tableQuery, "by_body", "body",
                                   Val(args.bodyFilter))>>
            ELSE <<>>
        made == ordered \o searched
    IN [made |-> made, q |-> IF made = <<>> THEN indexedQuery ELSE LastOf(made)]

\* A slip: the order stage asks for the ascending order.
MessagesOrderStageAscending(tableQuery, indexedQuery, args) ==
    LET ordered ==
            IF args.newestFirst THEN <<Order(indexedQuery, "asc")>> ELSE <<>>
        searched ==
            IF Truthy(args.bodyFilter)
            THEN <<WithSearchIndex(tableQuery, "by_body", "body",
                                   Val(args.bodyFilter))>>
            ELSE <<>>
        made == ordered \o searched
    IN [made |-> made, q |-> IF made = <<>> THEN indexedQuery ELSE LastOf(made)]

\* A slip: the text search is applied only when no order was asked for.
MessagesOrderStageOrderWins(tableQuery, indexedQuery, args) ==
    LET ordered ==
            IF args.newestFirst THEN <<Order(indexedQuery, "desc")>> ELSE <<>>
        searched ==
            IF Truthy(args.bodyFilter) /\ ~args.newestFirst
            THEN <<WithSearchIndex(tableQuery, "by_body", "body",
                                   Val(args.bodyFilter))>>
            ELSE <<>>
        made == ordered \o searched
    IN [made |-> made, q |-> IF made = <<>> THEN indexedQuery ELSE LastOf(made)]


\* Stage 3: apply the order or the text search index.
MessagesOrderStage(tableQuery, indexedQuery, args) ==
    LET ordered ==
            IF args.newestFirst THEN <<Order(indexedQuery, "desc")>> ELSE <<>>
        searched ==
            IF Truthy(args.bodyFilter)
            THEN <<WithSearchIndex(tableQuery, "by_body", "body",
                                   Val(args.bodyFilter))>>
            ELSE <<>>
        made == ordered \o searched
    IN [made |-> made, q |-> IF made = <<>> THEN indexedQuery ELSE LastOf(made)]

\* A slip: the handle filter returns is not assigned back to orderedQuery.
MessagesPostFilterNotAssigned(orderedQuery, args) ==
    LET made == IF args.excludeHidden
                THEN <<Filter(orderedQuery, "hidden", FALSE)>>
                ELSE <<>>
    IN [made |-> made, q |-> orderedQuery]

\* Post-filter.
MessagesPostFilter(orderedQuery, args) ==
    LET made == IF args.excludeHidden
                THEN <<Filter(orderedQuery, "hidden", FALSE)>>
                ELSE <<>>
    IN [made |-> made, q |-> IF made = <<>> THEN orderedQuery ELSE LastOf(made)]

\* The handle take is called on, and every handle a builder call returned.
ListMessagesQuery(args) ==
    LET tableQuery == DbQuery("messages")
        indexed == MessagesIndexStage(tableQuery, args)
        ordered == MessagesOrderStage(tableQuery, indexed.q, args)
        filtered == MessagesPostFilter(ordered.q, args)
    IN [query |-> filtered.q,
        built |-> indexed.made \o ordered.made \o filtered.made]

(***************************************************************************)
(* listMessagesWithoutTypecheck: one variable, every builder call made on  *)
(* the handle the previous call returned.                                  *)
(***************************************************************************)
\* The handles the builder calls returned, given the values the variable
\* took: a call was made where the value changed.
RECURSIVE Returned(_)
Returned(handles) ==
    IF Len(handles) < 2 THEN <<>>
    ELSE LET n == Len(handles) IN
         Returned(SubSeq(handles, 1, n - 1))
            \o (IF handles[n] # handles[n - 1] THEN <<handles[n]>> ELSE <<>>)

\* A slip: the untyped handler leaves out the post-filter.
ListMessagesWithoutTypecheckUnfiltered(args) ==
    LET q0 == DbQuery("messages")
        q1 == IF args.authorFilter # Absent
              THEN WithIndex(q0, "by_author", "author", Val(args.authorFilter))
              ELSE q0
        q2 == IF args.conversationFilter # Absent
              THEN WithIndex(q1, "by_conversation", "conversation",
                             Val(args.conversationFilter))
              ELSE q1
        q3 == IF args.newestFirst THEN Order(q2, "desc") ELSE q2
        q4 == IF Truthy(args.bodyFilter)
              THEN WithSearchIndex(q3, "by_body", "body", Val(args.bodyFilter))
              ELSE q3
        handles == <<q0, q1, q2, q3, q4>>
    IN [query |-> q4, built |-> Returned(handles)]

ListMessagesWithoutTypecheckQuery(args) ==
    LET q0 == DbQuery("messages")
        q1 == IF args.authorFilter # Absent
              THEN WithIndex(q0, "by_author", "author", Val(args.authorFilter))
              ELSE q0
        q2 == IF args.conversationFilter # Absent
              THEN WithIndex(q1, "by_conversation", "conversation",
                             Val(args.conversationFilter))
              ELSE q1
        q3 == IF args.newestFirst THEN Order(q2, "desc") ELSE q2
        q4 == IF Truthy(args.bodyFilter)
              THEN WithSearchIndex(q3, "by_body", "body", Val(args.bodyFilter))
              ELSE q3
        q5 == IF args.excludeHidden THEN Filter(q4, "hidden", FALSE) ELSE q4
        handles == <<q0, q1, q2, q3, q4, q5>>
    IN [query |-> q5, built |-> Returned(handles)]

(***************************************************************************)
(* sqlExample.  The statement is kept by its parts: the WHERE clauses in   *)
(* the order they are pushed, the ORDER BY column, DESC and the LIMIT.     *)
(***************************************************************************)
SqlLimit == 10

SqlExample(args) ==
    LET byAuthor == IF args.authorFilter # Absent
                    THEN <<[column |-> "author", op |-> "=",
                            value |-> Val(args.authorFilter)]>>
                    ELSE <<>>
        byConversation == IF args.conversationFilter # Absent
                          THEN <<[column |-> "conversation", op |-> "=",
                                  value |-> Val(args.conversationFilter)]>>
                          ELSE <<>>
        byBody == IF args.bodyFilter # Absent
                  THEN <<[column |-> "body", op |-> "LIKE",
                          value |-> Val(args.bodyFilter)]>>
                  ELSE <<>>
        visible == IF args.excludeHidden
                   THEN <<[column |-> "hidden", op |-> "=", value |-> FALSE]>>
                   ELSE <<>>
    IN [from |-> "messages",
        where |-> byAuthor \o byConversation \o byBody \o visible,
        orderBy |-> "_creationTime", desc |-> args.newestFirst,
        limit |-> SqlLimit]

\* body LIKE '%term%': the term occurs in the text.  A text is its words
\* and a term is one word or empty, and the empty term occurs in every text.
Like(words, term) == term = "" \/ \E i \in DOMAIN words : words[i] = term

SqlHolds(row, clause) ==
    IF clause.op = "LIKE" THEN Like(row[clause.column], clause.value)
    ELSE row[clause.column] = clause.value

\* The rows the statement selects: those every clause holds of, by
\* creation time, ascending unless DESC, the first LIMIT of them.
RunSql(sql) ==
    LET matching == SelectSeq(Table(sql.from),
                       LAMBDA row : \A i \in DOMAIN sql.where :
                                        SqlHolds(row, sql.where[i]))
    IN FirstN(IF sql.desc THEN Reverse(matching) ELSE matching, sql.limit)

(***************************************************************************)
(* listUsers, with the text search on the name.                            *)
(***************************************************************************)
ListUsersArgs ==
    [name : NameFilters, token : TokenFilters,
     onlyActive : BOOLEAN, desc : BOOLEAN]

UsersIndexStage(tableQuery, args) ==
    LET made == IF Truthy(args.token)
                THEN <<WithIndex(tableQuery, "by_token", "tokenIdentifier",
                                 Val(args.token))>>
                ELSE <<>>
    IN [made |-> made, q |-> IF made = <<>> THEN tableQuery ELSE LastOf(made)]

\* A slip the handler's comments warn against: withSearchIndex is called on
\* indexedQuery, not on tableQuery.
UsersOrderStageOnIndexed(tableQuery, indexedQuery, args) ==
    LET ordered ==
            IF args.desc THEN <<Order(indexedQuery, "desc")>> ELSE <<>>
        searched ==
            IF Truthy(args.name)
            THEN <<WithSearchIndex(indexedQuery, "by_name", "name",
                                   Val(args.name))>>
            ELSE <<>>
        made == ordered \o searched
    IN [made |-> made, q |-> IF made = <<>> THEN indexedQuery ELSE LastOf(made)]

UsersOrderStage(tableQuery, indexedQuery, args) ==
    LET ordered ==
            IF args.desc THEN <<Order(indexedQuery, "desc")>> ELSE <<>>
        searched ==
            IF Truthy(args.name)
            THEN <<WithSearchIndex(tableQuery, "by_name", "name",
                                   Val(args.name))>>
            ELSE <<>>
        made == ordered \o searched
    IN [made |-> made, q |-> IF made = <<>> THEN indexedQuery ELSE LastOf(made)]

\* A slip: the handle filter returns is not assigned back to orderedQuery.
UsersPostFilterNotAssigned(orderedQuery, args) ==
    LET made == IF args.onlyActive
                THEN <<Filter(orderedQuery, "status", "active")>>
                ELSE <<>>
    IN [made |-> made, q |-> orderedQuery]

UsersPostFilter(orderedQuery, args) ==
    LET made == IF args.onlyActive
                THEN <<Filter(orderedQuery, "status", "active")>>
                ELSE <<>>
    IN [made |-> made, q |-> IF made = <<>> THEN orderedQuery ELSE LastOf(made)]

ListUsersQuery(args) ==
    LET tableQuery == DbQuery("users")
        indexed == UsersIndexStage(tableQuery, args)
        ordered == UsersOrderStage(tableQuery, indexed.q, args)
        filtered == UsersPostFilter(ordered.q, args)
    IN [query |-> filtered.q,
        built |-> indexed.made \o ordered.made \o filtered.made]

(***************************************************************************)
(* listUsers, the variant with two regular indexes that filters before it  *)
(* orders.                                                                 *)
(***************************************************************************)
ByIndexIndexStage(tableQuery, args) ==
    LET byName ==
            IF Truthy(args.name)
            THEN <<WithIndex(tableQuery, "by_name", "name", Val(args.name))>>
            ELSE <<>>
        byToken ==
            IF Truthy(args.token)
            THEN <<WithIndex(tableQuery, "by_token", "tokenIdentifier",
                             Val(args.token))>>
            ELSE <<>>
        made == byName \o byToken
    IN [made |-> made, q |-> IF made = <<>> THEN tableQuery ELSE LastOf(made)]

\* A slip: the filter is called on the table handle, which drops the index.
ByIndexFilterStageOnTable(indexedQuery, args) ==
    LET made == IF args.onlyActive
                THEN <<Filter(DbQuery("users"), "status", "active")>>
                ELSE <<>>
    IN [made |-> made, q |-> IF made = <<>> THEN indexedQuery ELSE LastOf(made)]

\* Stage 3 of the variant: the filter lands in indexedQuery.
ByIndexFilterStage(indexedQuery, args) ==
    LET made == IF args.onlyActive
                THEN <<Filter(indexedQuery, "status", "active")>>
                ELSE <<>>
    IN [made |-> made, q |-> IF made = <<>> THEN indexedQuery ELSE LastOf(made)]

ByIndexOrderStage(indexedQuery, args) ==
    LET made == IF args.desc THEN <<Order(indexedQuery, "desc")>> ELSE <<>>
    IN [made |-> made, q |-> IF made = <<>> THEN indexedQuery ELSE LastOf(made)]

ListUsersByIndexQuery(args) ==
    LET tableQuery == DbQuery("users")
        indexed == ByIndexIndexStage(tableQuery, args)
        filtered == ByIndexFilterStage(indexed.q, args)
        ordered == ByIndexOrderStage(filtered.q, args)
    IN [query |-> ordered.q,
        built |-> indexed.made \o filtered.made \o ordered.made]

(***************************************************************************)
(* The mutations.                                                          *)
(***************************************************************************)
\* Every author writes in room1, alice in room2 as well.
CreateMessageArgs ==
    { a \in [author : Authors, conversation : Conversations, body : Bodies,
             hidden : BOOLEAN] :
        a.author = "alice" \/ a.conversation = "room1" }

CreateUserArgs == [name : Names, token : Tokens, status : Statuses]

\* The record the storage layer stores for ctx.db.insert("messages", args):
\* the fields, a fresh identity and the creation time.  Only the order of
\* the creation times within a table is observable, so each table counts
\* its own time.
NewMessage(args) ==
    [author |-> args.author, conversation |-> args.conversation,
     body |-> args.body, hidden |-> args.hidden,
     _id |-> <<"messages", Len(messages) + 1>>,
     _creationTime |-> Len(messages) + 1]

\* A slip: every user is stored under the identity of the first.
NewUserFixedId(args) ==
    [name |-> args.name, tokenIdentifier |-> args.token,
     status |-> args.status,
     _id |-> <<"users", 1>>,
     _creationTime |-> Len(users) + 1]


NewUser(args) ==
    [name |-> args.name, tokenIdentifier |-> args.token,
     status |-> args.status,
     _id |-> <<"users", Len(users) + 1>>,
     _creationTime |-> Len(users) + 1]

(***************************************************************************)
(* The state machine.  last is the latest handler invocation: its          *)
(* arguments, the handles its builder calls returned (built), the handle   *)
(* it materialised (query), what the storage collaborator raised (raised)  *)
(* and how the handler completed towards its caller (status, error,        *)
(* value).                                                                 *)
(***************************************************************************)
Invocation(op, args, q, promise, outcome) ==
    [op |-> op, args |-> args, built |-> q.built, query |-> q.query,
     raised |-> promise.error, status |-> outcome.status,
     error |-> outcome.error, value |-> outcome.value]

NoQuery(table) == [query |-> DbQuery(table), built |-> <<>>]

NoInvocation ==
    [op |-> "none", args |-> <<>>, built |-> <<>>, query |-> DbQuery("messages"),
     raised |-> "none", status |-> "ok", error |-> "none", value |-> <<>>]

\* One invocation at a time: the caller has taken the previous outcome.
Idle == last.op = "none"

\* A slip: the query is collected, not bounded by take(10).
ListMessagesCollect(faults) ==
    /\ Idle
    /\ \E args \in ListMessagesArgs, fault \in faults :
        LET q == ListMessagesQuery(args)
            promise == Take(q.query, Len(messages), fault)
        IN last' = Invocation("listMessages", args, q, promise, Await(promise))
    /\ UNCHANGED <<messages, users, form>>

\* A slip: the messages returned are removed from the table.
ListMessagesConsuming(faults) ==
    /\ Idle
    /\ \E args \in ListMessagesArgs, fault \in faults :
        LET q == ListMessagesQuery(args)
            promise == Take(q.query, TakeCount, fault)
        IN /\ last' = Invocation("listMessages", args, q, promise,
                                 Await(promise))
           /\ messages' = SelectSeq(messages,
                             LAMBDA m : \A i \in DOMAIN promise.value :
                                            promise.value[i] # m)
    /\ UNCHANGED <<users, form>>


ListMessages(faults) ==
    /\ Idle
    /\ \E args \in ListMessagesArgs, fault \in faults :
        LET q == ListMessagesQuery(args)
            promise == Take(q.query, TakeCount, fault)
        IN last' = Invocation("listMessages", args, q, promise, Await(promise))
    /\ UNCHANGED <<messages, users, form>>

ListUsers(faults) ==
    /\ Idle
    /\ \E args \in ListUsersArgs, fault \in faults :
        LET q == ListUsersQuery(args)
            promise == Take(q.query, TakeCount, fault)
        IN last' = Invocation("listUsers", args, q, promise, Await(promise))
    /\ UNCHANGED <<messages, users, form>>

ListUsersByIndex(faults) ==
    /\ Idle
    /\ \E args \in ListUsersArgs, fault \in faults :
        LET q == ListUsersByIndexQuery(args)
            promise == Take(q.query, TakeCount, fault)
        IN last' = Invocation("listUsersByIndex", args, q, promise,
                              Await(promise))
    /\ UNCHANGED <<messages, users, form>>

ListMessagesWithoutTypecheck(faults) ==
    /\ Idle
    /\ \E args \in ListMessagesArgs, fault \in faults :
        LET q == ListMessagesWithoutTypecheckQuery(args)
            promise == Take(q.query, TakeCount, fault)
        IN last' = Invocation("listMessagesWithoutTypecheck", args, q,
                              promise, Await(promise))
    /\ UNCHANGED <<messages, users, form>>

\* sqlExample is synchronous and touches no storage: it returns the
\* statement.
SqlExampleCall ==
    /\ Idle
    /\ \E args \in ListMessagesArgs :
        LET returned == [status |-> "ok", error |-> "none",
                         value |-> SqlExample(args)]
        IN last' = Invocation("sqlExample", args, NoQuery("messages"),
                              returned, returned)
    /\ UNCHANGED <<messages, users, form>>


\* A slip: a message whose fields are already stored is not inserted.
CreateMessageDeduplicating(cap) ==
    /\ Idle
    /\ Stored < cap
    /\ \E args \in CreateMessageArgs, fault \in Faults :
        LET promise == Insert(fault)
            stored == \E i \in DOMAIN messages :
                         /\ messages[i].author = args.author
                         /\ messages[i].conversation = args.conversation
                         /\ messages[i].body = args.body
                         /\ messages[i].hidden = args.hidden
        IN /\ messages' = IF promise.status = "ok" /\ ~stored
                          THEN Append(messages, NewMessage(args))
                          ELSE messages
           /\ last' = Invocation("createMessage", args, NoQuery("messages"),
                                 promise, Floating(promise))
    /\ UNCHANGED <<users, form>>

CreateMessage(cap) ==
    /\ Idle
    /\ Stored < cap
    /\ \E args \in CreateMessageArgs, fault \in Faults :
        LET promise == Insert(fault)
        IN /\ messages' = IF promise.status = "ok"
                          THEN Append(messages, NewMessage(args))
                          ELSE messages
           /\ last' = Invocation("createMessage", args, NoQuery("messages"),
                                 promise, Floating(promise))
    /\ UNCHANGED <<users, form>>

\* A slip: a user whose token is already stored is not inserted.
CreateUserUniqueToken(cap) ==
    /\ Idle
    /\ Stored < cap
    /\ \E args \in CreateUserArgs, fault \in Faults :
        LET promise == Insert(fault)
            taken == \E i \in DOMAIN users :
                         users[i].tokenIdentifier = args.token
        IN /\ users' = IF promise.status = "ok" /\ ~taken
                       THEN Append(users, NewUser(args))
                       ELSE users
           /\ last' = Invocation("createUser", args, NoQuery("users"),
                                 promise, Floating(promise))
    /\ UNCHANGED <<messages, form>>


CreateUser(cap) ==
    /\ Idle
    /\ Stored < cap
    /\ \E args \in CreateUserArgs, fault \in Faults :
        LET promise == Insert(fault)
        IN /\ users' = IF promise.status = "ok"
                       THEN Append(users, NewUser(args))
                       ELSE users
           /\ last' = Invocation("createUser", args, NoQuery("users"),
                                 promise, Floating(promise))
    /\ UNCHANGED <<messages, form>>

\* The caller takes the outcome of the invocation.
Deliver ==
    /\ ~Idle
    /\ last' = NoInvocation
    /\ UNCHANGED <<messages, users, form>>

(***************************************************************************)
(* The CreateUser form of the user interface: the three state variables of *)
(* the component, the edits of its inputs and the submit handler.          *)
(***************************************************************************)
\* What can be typed into the two text inputs.
NameTexts == {""} \cup Names
TokenTexts == {""} \cup Tokens

\* useState("") twice and useState("active").
EmptyForm == [userNameText |-> "", tokenText |-> "", statusText |-> "active"]

\* disabled={!userNameText || !tokenText}
SubmitDisabled == form.userNameText = "" \/ form.tokenText = ""

SetUserNameText ==
    /\ \E text \in NameTexts : form' = [form EXCEPT !.userNameText = text]
    /\ UNCHANGED <<messages, users, last>>

SetTokenText ==
    /\ \E text \in TokenTexts : form' = [form EXCEPT !.tokenText = text]
    /\ UNCHANGED <<messages, users, last>>

\* The checkbox: checked stands for active.
SetStatusText ==
    /\ \E checked \in BOOLEAN :
          form' = [form EXCEPT
                     !.statusText = IF checked THEN "active" ELSE "inactive"]
    /\ UNCHANGED <<messages, users, last>>

\* handleCreateUser: the createUser mutation is invoked with the two texts
\* and the status "active", awaited, and the form is reset when it has
\* completed successfully.
HandleCreateUser(cap) ==
    /\ Idle
    /\ Stored < cap
    /\ ~SubmitDisabled
    /\ \E fault \in Faults :
        LET args == [name |-> form.userNameText, token |-> form.tokenText,
                     status |-> "active"]
            promise == Insert(fault)
            outcome == Floating(promise)
        IN /\ users' = IF promise.status = "ok"
                       THEN Append(users, NewUser(args))
                       ELSE users
           /\ last' = Invocation("createUser", args, NoQuery("users"),
                                 promise, outcome)
           /\ form' = IF Await(outcome).status = "ok" THEN EmptyForm ELSE form
    /\ UNCHANGED messages

Init ==
    /\ messages = <<>>
    /\ users = <<>>
    /\ last = NoInvocation
    /\ form = EmptyForm

\* Spec draws storage failures for the inserts only; SpecLong draws them
\* for the reads as well.
Next ==
    \/ CreateMessage(MaxRecords)
    \/ CreateUser(MaxRecords)
    \/ ListMessages({"none"})
    \/ ListUsers({"none"})
    \/ ListUsersByIndex({"none"})
    \/ Deliver

Spec == Init /\ [][Next]_vars

(***************************************************************************)
(* The same program started on tables that already hold LongBase records   *)
(* each, so that a query can match more than TakeCount records.            *)
(***************************************************************************)
LongMessages ==
    [i \in 1..LongBase |->
        [author |-> IF i % 2 = 1 THEN "alice" ELSE "bob",
         conversation |-> IF i % 4 = 3 THEN "room2" ELSE "room1",
         body |-> IF i % 3 = 0 THEN <<"hello", "hello">> ELSE <<"bye", "hello">>,
         hidden |-> (i % 5 = 2),
         _id |-> <<"messages", i>>, _creationTime |-> i]]

LongUsers ==
    [i \in 1..LongBase |->
        [name |-> IF i % 2 = 1 THEN "ann" ELSE "ben",
         tokenIdentifier |-> IF i % 3 = 0 THEN "t2" ELSE "t1",
         status |-> IF i % 5 = 2 THEN "inactive" ELSE "active",
         _id |-> <<"users", i>>, _creationTime |-> i]]

LongCap == 2 * LongBase + MaxExtra

InitLong ==
    /\ messages = LongMessages
    /\ users = LongUsers
    /\ last = NoInvocation
    /\ form = EmptyForm

NextLong ==
    \/ CreateMessage(LongCap)
    \/ CreateUser(LongCap)
    \/ ListMessages(Faults)
    \/ ListUsers(Faults)
    \/ ListUsersByIndex(Faults)
    \/ Deliver

SpecLong == InitLong /\ [][NextLong]_vars

(***************************************************************************)
(* The messages handlers that are given for comparison with listMessages:  *)
(* the untyped handler and the SQL builder, over the messages created.     *)
(***************************************************************************)
NextCompare ==
    \/ CreateMessage(MaxRecords)
    \/ ListMessagesWithoutTypecheck(Faults)
    \/ SqlExampleCall
    \/ Deliver

SpecCompare == Init /\ [][NextCompare]_vars

(***************************************************************************)
(* The CreateUser form over the users it creates.                          *)
(***************************************************************************)
NextForm ==
    \/ SetUserNameText
    \/ SetTokenText
    \/ SetStatusText
    \/ HandleCreateUser(MaxRecords)
    \/ Deliver

SpecForm == Init /\ [][NextForm]_vars


(***************************************************************************)
(* Properties.                                                             *)
(***************************************************************************)
ListOps == {"listMessages", "listUsers", "listUsersByIndex"}

\* The builder calls of the latest invocation, in call order, and the
\* handle each was made on.
CallsMade == [i \in DOMAIN last.built |-> LastOf(last.built[i].chain)]

Receiver(handle) == SubSeq(handle.chain, 1, Len(handle.chain) - 1)

HasCall(chain, op) == \E i \in DOMAIN chain : chain[i].op = op

SetOf(seq) == {seq[i] : i \in DOMAIN seq}

\* C1: for every combination of arguments of listMessages and listUsers,
\* the chain of builder calls behind the handle take(10) is called on holds
\* at most one index selection (withIndex or withSearchIndex) and at most one
\* order selection (order or withSearchIndex), never withIndex together with
\* withSearchIndex and never order together with withSearchIndex.
C1_OneIndexOneOrder ==
    last.op \in ListOps =>
        LET chain == last.query.chain IN
        /\ CountCalls(chain, IsIndexSelection) <= 1
        /\ CountCalls(chain, IsOrderSelection) <= 1
        /\ ~(HasCall(chain, "withIndex") /\ HasCall(chain, "withSearchIndex"))
        /\ ~(HasCall(chain, "order") /\ HasCall(chain, "withSearchIndex"))

\* C1 witness: listMessages was called with both index filters, a search
\* term and newestFirst, and the materialised chain holds one selection.
C1_Witness ==
    /\ last.op = "listMessages"
    /\ last.args.authorFilter # Absent
    /\ last.args.conversationFilter # Absent
    /\ Truthy(last.args.bodyFilter)
    /\ last.args.newestFirst
    /\ CountCalls(last.query.chain, IsIndexSelection) = 1

\* C2 as stated: during one invocation of listMessages or listUsers at most
\* one index-selection call (withIndex, withSearchIndex) and at most one
\* order-selection call (order, withSearchIndex) is made on the handles.
C2_AtMostOneSelectionCall ==
    last.op \in ListOps =>
        /\ CountCalls(CallsMade, IsIndexSelection) <= 1
        /\ CountCalls(CallsMade, IsOrderSelection) <= 1

\* C2 amended: an invocation makes up to three index-selection calls
\* (listMessages; listUsers up to two) and up to two order-selection calls,
\* each of them on a handle that carries no selection of that kind yet, so
\* that no handle ever carries more than one index selection or more than
\* one order selection.
C2_SelectionCallsOnFreshHandles ==
    last.op \in ListOps =>
        /\ CountCalls(CallsMade, IsIndexSelection)
              <= (IF last.op = "listMessages" THEN 3 ELSE 2)
        /\ CountCalls(CallsMade, IsOrderSelection) <= 2
        /\ \A i \in DOMAIN last.built :
              LET handle == last.built[i]
                  call == LastOf(handle.chain)
              IN /\ IsIndexSelection(call) =>
                        CountCalls(Receiver(handle), IsIndexSelection) = 0
                 /\ IsOrderSelection(call) =>
                        CountCalls(Receiver(handle), IsOrderSelection) = 0
                 /\ CountCalls(handle.chain, IsIndexSelection) <= 1
                 /\ CountCalls(handle.chain, IsOrderSelection) <= 1

\* C2 witness: one listMessages invocation made three index-selection calls
\* and two order-selection calls.
C2_Witness ==
    /\ last.op = "listMessages"
    /\ CountCalls(CallsMade, IsIndexSelection) = 3
    /\ CountCalls(CallsMade, IsOrderSelection) = 2

\* Both a text search filter and a regular index filter take effect in the
\* handler's conditions.
SearchAndIndexSupplied ==
    \/ /\ last.op = "listMessages"
       /\ Truthy(last.args.bodyFilter)
       /\ (last.args.authorFilter # Absent
              \/ last.args.conversationFilter # Absent)
    \/ /\ last.op = "listUsers"
       /\ Truthy(last.args.name)
       /\ Truthy(last.args.token)

\* The regular index filters the handler acts on.
IndexFiltersSupplied ==
    IF last.op = "listMessages"
    THEN (IF last.args.authorFilter # Absent THEN 1 ELSE 0)
           + (IF last.args.conversationFilter # Absent THEN 1 ELSE 0)
    ELSE (IF Truthy(last.args.token) THEN 1 ELSE 0)

\* C3: listMessages with a non-empty bodyFilter, whatever authorFilter and
\* conversationFilter are, materialises withSearchIndex("by_body") applied
\* to the table handle; the call does not fail validation, and its result
\* is ranked by relevance and not restricted by author or conversation: it
\* is the result of the same call without the two filters.
C3_SearchWins ==
    (last.op = "listMessages" /\ Truthy(last.args.bodyFilter)) =>
        LET term == Val(last.args.bodyFilter)
            search == [op |-> "withSearchIndex", index |-> "by_body",
                       field |-> "body", term |-> term]
            visible == [op |-> "filter", field |-> "hidden", value |-> FALSE]
            bare == [last.args EXCEPT !.authorFilter = Absent,
                                      !.conversationFilter = Absent]
            matching == {m \in SetOf(messages) :
                            /\ Relevance(m.body, term) > 0
                            /\ last.args.excludeHidden => ~m.hidden}
        IN /\ last.query.table = "messages"
           /\ last.query.chain = (IF last.args.excludeHidden
                                  THEN <<search, visible>> ELSE <<search>>)
           /\ last.error # "validation"
           /\ last.status = "ok" =>
                /\ last.value
                     = Take(ListMessagesQuery(bare).query, TakeCount, "none").value
                /\ SetOf(last.value) \subseteq matching
                /\ Len(last.value) < TakeCount => matching \subseteq SetOf(last.value)
                /\ \A i, j \in DOMAIN last.value :
                      i < j => Relevance(last.value[i].body, term)
                                  >= Relevance(last.value[j].body, term)

\* C3 witness: a search for "hello" with authorFilter alice returned a
\* message of another author, after a more relevant one.
C3_Witness ==
    /\ last.op = "listMessages"
    /\ last.args.bodyFilter = {"hello"}
    /\ last.args.authorFilter = {"alice"}
    /\ last.status = "ok"
    /\ Len(last.value) = 2
    /\ last.value[2].author = "bob"
    /\ last.value[2]._creationTime < last.value[1]._creationTime

\* C4 as stated: when both a text search filter and a regular index filter
\* are supplied, no withIndex call is made on any handle.
C4_NoWithIndexCall ==
    SearchAndIndexSupplied => ~HasCall(CallsMade, "withIndex")

\* C4 amended: when both are supplied, the handle take is called on carries
\* no regular index selection: it derives from the withSearchIndex call on
\* the table handle.  The withIndex calls are still made, one per supplied
\* index filter, each on the table handle, and the handles they return are
\* discarded.
C4_WithIndexDiscarded ==
    SearchAndIndexSupplied =>
        /\ ~HasCall(last.query.chain, "withIndex")
        /\ last.query.chain # <<>>
        /\ last.query.chain[1].op = "withSearchIndex"
        /\ CountCalls(CallsMade, LAMBDA c : c.op = "withIndex")
              = IndexFiltersSupplied
        /\ \A i \in DOMAIN last.built :
              LastOf(last.built[i].chain).op = "withIndex" =>
                  Len(last.built[i].chain) = 1

\* C4 witness: listMessages with an author and a search term made a
\* withIndex call and materialised the search.
C4_Witness ==
    /\ last.op = "listMessages"
    /\ last.args.authorFilter = {"alice"}
    /\ last.args.bodyFilter = {"bye"}
    /\ HasCall(CallsMade, "withIndex")
    /\ last.status = "ok"

\* C5 as stated: for every combination of optional arguments of
\* listMessages and listUsers, every builder call names an index the schema
\* declares for the table with the kind the call needs, and building and
\* running the query raises no validation error.
C5_NoValidationError ==
    last.op \in ListOps =>
        /\ \A i \in DOMAIN last.built : Declared(last.built[i])
        /\ last.raised # "validation"
        /\ last.error # "validation"


\* The query a list handler builds from its arguments.
QueryOf(op, args) ==
    CASE op = "listMessages" -> ListMessagesQuery(args).query
      [] op = "listUsers" -> ListUsersQuery(args).query
      [] op = "listUsersByIndex" -> ListUsersByIndexQuery(args).query

Listed(table) ==
    /\ last.op \in ListOps
    /\ last.query.table = table

\* The post-filter flag of the latest list invocation, and its predicate.
PostFilterOn ==
    IF last.op = "listMessages" THEN last.args.excludeHidden
    ELSE last.args.onlyActive

Passes(row) ==
    IF last.query.table = "messages" THEN ~row.hidden
    ELSE row.status = "active"

PassesIfOn(row) == PostFilterOn => Passes(row)

\* No index filter, no search term, ascending order.
NoFiltersAscending ==
    \/ /\ last.op = "listMessages"
       /\ last.args.authorFilter = Absent
       /\ last.args.conversationFilter = Absent
       /\ last.args.bodyFilter = Absent
       /\ ~last.args.newestFirst
    \/ /\ last.op \in {"listUsers", "listUsersByIndex"}
       /\ last.args.name = Absent
       /\ last.args.token = Absent
       /\ ~last.args.desc

\* The stored table is kept in ascending creation-time order.
InCreationOrder(rows) ==
    \A i, j \in DOMAIN rows : i < j => rows[i]._creationTime < rows[j]._creationTime

\* C6 as stated: without filters and in ascending order the result is the
\* first 10 records of the table in ascending creation-time order, with the
\* records the post-filter rejects removed from those 10.
C6_FirstTenThenFilter ==
    (NoFiltersAscending /\ last.status = "ok") =>
        LET rows == Table(last.query.table) IN
        /\ InCreationOrder(rows)
        /\ last.value = SelectSeq(FirstN(rows, TakeCount), PassesIfOn)

\* C6 amended: without filters and in ascending order the result is the
\* first 10 of the records the post-filter accepts, in ascending
\* creation-time order: the post-filter runs before take(10), so accepted
\* records beyond the first 10 of the table take the places of rejected ones.
C6_FilterThenFirstTen ==
    (NoFiltersAscending /\ last.status = "ok") =>
        LET rows == Table(last.query.table) IN
        /\ InCreationOrder(rows)
        /\ last.value = FirstN(SelectSeq(rows, PassesIfOn), TakeCount)

\* C6 witness: an unfiltered ascending listMessages with excludeHidden
\* returned the eleventh message of the table, a hidden one among the first
\* ten being left out.
C6_Witness ==
    /\ last.op = "listMessages"
    /\ NoFiltersAscending
    /\ last.args.excludeHidden
    /\ last.status = "ok"
    /\ Len(messages) > TakeCount
    /\ messages[TakeCount + 1] \in SetOf(last.value)
    /\ \E i \in 1..TakeCount : messages[i].hidden

\* The index and order selection of a chain: the chain without its filters.
Selection(chain) == SelectSeq(chain, LAMBDA call : call.op # "filter")

\* The arguments of the latest list invocation with the post-filter flag
\* set to flag.
WithFlag(flag) ==
    IF last.op = "listMessages"
    THEN [last.args EXCEPT !.excludeHidden = flag]
    ELSE [last.args EXCEPT !.onlyActive = flag]

Position(rows, row) == CHOOSE k \in DOMAIN rows : rows[k] = row

\* C7: for fixed index filters and order flag, the post-filter flag
\* (excludeHidden, onlyActive) does not change the index or the order of the
\* materialised query, also in the listUsers version that filters before it
\* orders; the records returned with the flag on all satisfy the predicate
\* and keep the relative order they have in the candidate sequence the
\* index and order select.
C7_PostFilterKeepsSelection ==
    last.op \in ListOps =>
        LET candidates == Rows([table |-> last.query.table,
                                chain |-> Selection(last.query.chain)])
        IN /\ Selection(QueryOf(last.op, WithFlag(TRUE)).chain)
                 = Selection(QueryOf(last.op, WithFlag(FALSE)).chain)
           /\ Selection(last.query.chain)
                 = QueryOf(last.op, WithFlag(FALSE)).chain
           /\ (PostFilterOn /\ last.status = "ok") =>
                 /\ \A i \in DOMAIN last.value : Passes(last.value[i])
                 /\ SetOf(last.value) \subseteq SetOf(candidates)
                 /\ \A i, j \in DOMAIN last.value :
                       i < j => Position(candidates, last.value[i])
                                   < Position(candidates, last.value[j])

\* C7 witness: the filter-first listUsers, descending and onlyActive,
\* returned several users while an inactive user is stored.
C7_Witness ==
    /\ last.op = "listUsersByIndex"
    /\ last.args.onlyActive
    /\ last.args.desc
    /\ last.args.name = {"ann"}
    /\ last.status = "ok"
    /\ Len(last.value) >= 2
    /\ \E i \in DOMAIN users :
          users[i].name = "ann" /\ users[i].status = "inactive"

\* The fields a creation handler is given, as stored.
SameFields(r1, r2) ==
    \A f \in DOMAIN r1 \ {"_id", "_creationTime"} : r1[f] = r2[f]

\* The record satisfies every filter the latest list invocation was given,
\* and its post-filter.
SatisfiesFilters(row) ==
    /\ PassesIfOn(row)
    /\ IF last.op = "listMessages"
       THEN /\ last.args.authorFilter # Absent
                 => row.author = Val(last.args.authorFilter)
            /\ last.args.conversationFilter # Absent
                 => row.conversation = Val(last.args.conversationFilter)
            /\ Truthy(last.args.bodyFilter)
                 => Relevance(row.body, Val(last.args.bodyFilter)) > 0
       ELSE /\ Truthy(last.args.token)
                 => row.tokenIdentifier = Val(last.args.token)
            /\ Truthy(last.args.name) => row.name = Val(last.args.name)

DuplicatesDistinct(rows) ==
    \A i, j \in DOMAIN rows :
        (i < j /\ SameFields(rows[i], rows[j])) => rows[i]._id # rows[j]._id

C8_DuplicatesListed ==
    /\ DuplicatesDistinct(messages)
    /\ DuplicatesDistinct(users)
    /\ (last.op \in ListOps /\ last.status = "ok"
           /\ Len(Rows(last.query)) <= TakeCount) =>
          LET rows == Table(last.query.table) IN
          \A i, j \in DOMAIN rows :
              (i < j /\ SameFields(rows[i], rows[j])
                     /\ SatisfiesFilters(rows[i])) =>
                  {rows[i], rows[j]} \subseteq SetOf(last.value)

\* The step part of C8 amended: a creation whose insert the storage layer
\* performs appends one record with the given fields and a fresh identity,
\* whether or not such fields are stored already, and no step removes or
\* changes a stored record.
C8_CreateAppends ==
    /\ (last'.op = "createMessage" /\ last'.raised = "none" /\ last' # last) =>
          /\ Len(messages') = Len(messages) + 1
          /\ SameFields(messages'[Len(messages')],
                        [author |-> last'.args.author,
                         conversation |-> last'.args.conversation,
                         body |-> last'.args.body,
                         hidden |-> last'.args.hidden])
          /\ \A i \in DOMAIN messages :
                messages[i]._id # messages'[Len(messages')]._id
    /\ (last'.op = "createUser" /\ last'.raised = "none" /\ last' # last) =>
          /\ Len(users') = Len(users) + 1
          /\ SameFields(users'[Len(users')],
                        [name |-> last'.args.name,
                         tokenIdentifier |-> last'.args.token,
                         status |-> last'.args.status])
          /\ \A i \in DOMAIN users : users[i]._id # users'[Len(users')]._id
    /\ \A i \in DOMAIN messages :
          i \in DOMAIN messages' /\ messages'[i] = messages[i]
    /\ \A i \in DOMAIN users : i \in DOMAIN users' /\ users'[i] = users[i]

C9_FailurePropagates ==
    last.raised # "none" =>
        /\ last.status = "error"
        /\ last.error = last.raised

\* C10: every result of listMessages and of listUsers is a sequence of at
\* most 10 records, without duplicates, each stored in the queried table.
C10_BoundedResult ==
    (last.op \in ListOps /\ last.status = "ok") =>
        /\ Len(last.value) <= TakeCount
        /\ \A i, j \in DOMAIN last.value :
              i # j => last.value[i]._id # last.value[j]._id
        /\ SetOf(last.value) \subseteq SetOf(Table(last.query.table))

\* C10 witness: a list operation returned exactly 10 of more than 10
\* stored messages.
C10_Witness ==
    /\ last.op = "listMessages"
    /\ last.status = "ok"
    /\ Len(last.value) = TakeCount
    /\ Len(messages) > TakeCount
    /\ last.args.newestFirst

\* C11: listMessages with an authorFilter, no conversationFilter, no
\* bodyFilter, newestFirst and excludeHidden returns, when the storage layer
\* raises nothing, exactly the first 10 (or all, when fewer) of the
\* non-hidden messages of that author in descending creation-time order.
C11_AuthorNewestFirstVisible ==
    (/\ last.op = "listMessages"
     /\ last.args.authorFilter # Absent
     /\ last.args.conversationFilter = Absent
     /\ last.args.bodyFilter = Absent
     /\ last.args.newestFirst
     /\ last.args.excludeHidden
     /\ last.raised = "none") =>
        LET wanted(m) == ~m.hidden /\ m.author = Val(last.args.authorFilter)
        IN /\ InCreationOrder(messages)
           /\ last.status = "ok"
           /\ last.value = FirstN(Reverse(SelectSeq(messages, wanted)),
                                  TakeCount)

\* C11 witness: such a call for alice returned several messages, newest
\* first, while a hidden message of alice and a message of bob are stored.
C11_Witness ==
    /\ last.op = "listMessages"
    /\ last.args.authorFilter = {"alice"}
    /\ last.args.conversationFilter = Absent
    /\ last.args.bodyFilter = Absent
    /\ last.args.newestFirst
    /\ last.args.excludeHidden
    /\ last.status = "ok"
    /\ Len(last.value) >= 2
    /\ last.value[1]._creationTime > last.value[2]._creationTime
    /\ \E i, j \in DOMAIN messages :
          /\ messages[i].author = "alice" /\ messages[i].hidden
          /\ messages[j].author = "bob"

\* C12: listUsers (either version) with name and token absent, onlyActive
\* and not desc returns, when the storage layer raises nothing, exactly the
\* first 10 (or all, when fewer) of the active users in ascending creation
\* order.
C12_ActiveUsersAscending ==
    (/\ last.op \in {"listUsers", "listUsersByIndex"}
     /\ last.args.name = Absent
     /\ last.args.token = Absent
     /\ last.args.onlyActive
     /\ ~last.args.desc
     /\ last.raised = "none") =>
        LET active(u) == u.status = "active"
        IN /\ InCreationOrder(users)
           /\ last.status = "ok"
           /\ last.value = FirstN(SelectSeq(users, active), TakeCount)

\* C12 witness: such a call returned several users, oldest first, while an
\* inactive user is stored before an active one.
C12_Witness ==
    /\ last.op = "listUsers"
    /\ last.args.name = Absent
    /\ last.args.token = Absent
    /\ last.args.onlyActive
    /\ ~last.args.desc
    /\ last.status = "ok"
    /\ Len(last.value) >= 2
    /\ last.value[1]._creationTime < last.value[2]._creationTime
    /\ \E i, j \in DOMAIN users :
          i < j /\ users[i].status = "inactive" /\ users[j].status = "active"

\* What listMessages builds and returns for the arguments of the latest
\* invocation, in the same state and under the same storage failure.
StagedQuery == ListMessagesQuery(last.args).query

StagedOutcome ==
    Await(Take(StagedQuery, TakeCount,
               IF last.raised \in Faults THEN last.raised ELSE "none"))

Outcome == [status |-> last.status, error |-> last.error, value |-> last.value]

\* The arguments make the single variable receive a second index
\* selection or a second order selection.
Conflicting(args) ==
    \/ args.authorFilter # Absent /\ args.conversationFilter # Absent
    \/ /\ Truthy(args.bodyFilter)
       /\ \/ args.authorFilter # Absent
          \/ args.conversationFilter # Absent
          \/ args.newestFirst

C14_SqlEquivalent ==
    last.op = "sqlExample" =>
        /\ last.value.limit = TakeCount
        /\ StagedOutcome.status = "ok"
        /\ RunSql(last.value) = StagedOutcome.value


\* A step that is the invocation of the handler op.
Invokes(op) == last.op = "none" /\ last'.op = op

\* C15: every invocation of listMessages or listUsers, with any arguments
\* and in any state, leaves both stored tables unchanged.
C15_QueryPathFrame ==
    [][(\E op \in ListOps : Invokes(op)) =>
           /\ messages' = messages
           /\ users' = users]_vars

\* C15 witness: a list operation has run while both tables hold a record.
C15_Witness ==
    /\ last.op \in ListOps
    /\ last.status = "ok"
    /\ Len(last.value) >= 1
    /\ Len(messages) >= 1
    /\ Len(users) >= 1

\* What a creation step appends to rows: one record with the given fields
\* and an identity no stored record has; the stored records stay as they
\* are.
AppendsOne(rows, rowsAfter, fields) ==
    /\ Len(rowsAfter) = Len(rows) + 1
    /\ SubSeq(rowsAfter, 1, Len(rows)) = rows
    /\ SameFields(fields, rowsAfter[Len(rowsAfter)])
    /\ \A i \in DOMAIN rows : rows[i]._id # rowsAfter[Len(rowsAfter)]._id

MessageFields(args) ==
    [author |-> args.author, conversation |-> args.conversation,
     body |-> args.body, hidden |-> args.hidden]

UserFields(args) ==
    [name |-> args.name, tokenIdentifier |-> args.token,
     status |-> args.status]

AppliedIndexes ==
    SelectSeq(last.query.chain, IsIndexSelection)

\* C17 as stated: conflicting filters are resolved by the precedence text
\* search, then the index filters in declaration order: listMessages with
\* authorFilter and conversationFilter and no bodyFilter applies the index
\* by_author to the materialised query.
C17_AuthorIndexApplied ==
    (/\ last.op = "listMessages"
     /\ last.args.authorFilter # Absent
     /\ last.args.conversationFilter # Absent
     /\ last.args.bodyFilter = Absent) =>
        /\ Len(AppliedIndexes) = 1
        /\ AppliedIndexes[1].index = "by_author"

\* The stored records of a table as they were inserted: identities pairwise
\* distinct, creation times not decreasing along the insertion order.
WellKept(rows) ==
    /\ \A i, j \in DOMAIN rows : i # j => rows[i]._id # rows[j]._id
    /\ \A i, j \in DOMAIN rows :
          i < j => rows[i]._creationTime <= rows[j]._creationTime

\* Every record of rows is in rowsAfter at its place, as it was.
Kept(rows, rowsAfter) ==
    /\ Len(rowsAfter) >= Len(rows)
    /\ SubSeq(rowsAfter, 1, Len(rows)) = rows

\* C18: in every state reachable by create and list operations the
\* identities of the stored records of a table are pairwise distinct and a
\* record inserted later has a creation time not earlier than one inserted
\* before it; every step keeps every stored record, with its fields,
\* identity and creation time (no update, no delete).
C18_RecordsImmutable ==
    /\ [](WellKept(messages) /\ WellKept(users))
    /\ [][Kept(messages, messages') /\ Kept(users, users')]_vars

\* C18 witness: two users were created one after the other and a list
\* operation returned both in the order of their insertion.
C18_Witness ==
    /\ Len(users) = 2
    /\ last.op = "listUsers"
    /\ last.status = "ok"
    /\ last.value = users
    /\ users[1]._creationTime < users[2]._creationTime


\* What the handler of the latest list invocation builds and returns for
\* the arguments args, in the same state and under the same storage
\* failure.
Built(args) ==
    CASE last.op = "listMessages" -> ListMessagesQuery(args)
      [] last.op = "listUsers" -> ListUsersQuery(args)
      [] last.op = "listUsersByIndex" -> ListUsersByIndexQuery(args)

Returns(args) ==
    Await(Take(Built(args).query, TakeCount,
               IF last.raised \in Faults THEN last.raised ELSE "none"))

\* The latest list invocation built and returned what it builds and
\* returns for the arguments args.
BehavesAsWith(args) ==
    /\ last.query = Built(args).query
    /\ last.built = Built(args).built
    /\ Outcome = Returns(args)

ByRelevance(rows, term) ==
    \A i, j \in DOMAIN rows :
        i < j => Relevance(rows[i].body, term) >= Relevance(rows[j].body, term)

\* C20: listMessages with a non-empty bodyFilter builds and returns the
\* same with newestFirst as without it: the result is ordered by descending
\* search relevance and the handle order("desc") returned in stage 3 is not
\* part of the materialised query.
C20_SearchIgnoresNewestFirst ==
    (last.op = "listMessages" /\ Truthy(last.args.bodyFilter)) =>
        LET flipped == [last.args EXCEPT !.newestFirst = ~@] IN
        /\ last.query = Built(flipped).query
        /\ Outcome = Returns(flipped)
        /\ ~HasCall(last.query.chain, "order")
        /\ last.args.newestFirst =>
              \E i \in DOMAIN last.built : CallsMade[i].op = "order"
        /\ last.status = "ok" =>
              ByRelevance(last.value, Val(last.args.bodyFilter))

\* C20 witness: a search with newestFirst returned 10 messages, an older
\* message before a newer one and the more relevant ones first.
C20_Witness ==
    /\ last.op = "listMessages"
    /\ last.args.bodyFilter = {"hello"}
    /\ last.args.newestFirst
    /\ last.status = "ok"
    /\ Len(last.value) = TakeCount
    /\ last.value[1]._creationTime < last.value[2]._creationTime
    /\ \E i \in DOMAIN last.value :
          Relevance(last.value[1].body, "hello")
             > Relevance(last.value[i].body, "hello")

\* C21 as stated: a submit of the CreateUser form is possible only when
\* name and token are both non-empty; it creates a user that carries the
\* status the checkbox selects at submit time (active when checked,
\* inactive when unchecked), and the form is then reset to an empty name,
\* an empty token and the status active.
C21_FormCreatesSelectedStatus ==
    [][Invokes("createUser") =>
          /\ ~SubmitDisabled
          /\ last'.args.name = form.userNameText
          /\ last'.args.token = form.tokenText
          /\ last'.args.status = form.statusText
          /\ last'.raised = "none" =>
                users'[Len(users')].status = form.statusText
          /\ form' = EmptyForm]_vars


=============================================================================
